---- MODULE Spec2Model ----
(***************************************************************************)
(* d2hl - "dupes to hardlinks".  A model of doD2hl: the tree walk with     *)
(* inode dedup (treeinfo.process), the checksum worker pool                *)
(* (treeinfo.checksum) fed over an unbuffered channel, and the             *)
(* rename-link-remove merge (dedupe), run against a small filesystem.      *)
(*                                                                         *)
(* A path is a sequence of string pieces whose concatenation is the path:  *)
(* <<"a">> is the file a, <<"a", ".tmpdedupe">> is a.tmpdedupe.  The tree   *)
(* lives on one filesystem, so an inode number identifies a file.  Inode   *)
(* numbers are labels: trees that differ only in how inodes are numbered   *)
(* are identified (Init numbers them in walk order).                       *)
(***************************************************************************)
EXTENDS Integers, Sequences, FiniteSets, TLC

\* ------------------------------------------------------------------ bounds
NumBases == 3
MaxJobs == 2
MaxRuns == 2
MaxLeftover == 1

BaseNames == <<"a", "b", "c", "d", "e", "f">>
Suffix == ".tmpdedupe"
\* the filesystem of root and one mounted below it
Devices == {"rootfs", "mounted"}

Contents == {"X", "Y"}
\* every path may be a file of its own
InoNums == 1..(NumBases + MaxLeftover)
WorkerIds == 0..(MaxJobs - 1)

\* ------------------------------------------------------------- pure helpers
\* a temporary name without the reserved suffix
tmpname_short(name) == name \o <<".tmp">>

\* fmt.Sprintf("%s.tmpdedupe", name)
tmpname(name) == name \o <<Suffix>>

\* strings.HasPrefix in place of strings.HasSuffix
HasSuffix_prefix(path) == Len(path) >= 1 /\ path[1] = Suffix

\* strings.HasSuffix(path, ".tmpdedupe")
HasSuffix(path) == Len(path) >= 1 /\ path[Len(path)] = Suffix

\* fi.Size() of a file with content c
Size(c) == IF c = "X" THEN 1 ELSE 2

\* the hash of no input: io.Copy(h, f) left out
Digest_empty(c) == <<"blake2b", "">>

\* fmt.Sprintf("%x", h.Sum(nil)) of the blake2b-256 hash of content c
Digest(c) == <<"blake2b", c>>

BaseIdx(tok) == CHOOSE i \in 1..Len(BaseNames) : BaseNames[i] = tok

\* lexical order of paths, the order in which filepath.Walk visits a directory
LexLess(p, q) ==
  \/ BaseIdx(p[1]) < BaseIdx(q[1])
  \/ BaseIdx(p[1]) = BaseIdx(q[1]) /\ Len(p) < Len(q)

RECURSIVE SortNames(_)
SortNames(S) ==
  IF S = {} THEN <<>>
  ELSE LET m == CHOOSE x \in S : \A y \in S \ {x} : LexLess(x, y)
       IN <<m>> \o SortNames(S \ {m})

\* the entries filepath.Walk hands to process, in order
WalkSeq(F) == SortNames(DOMAIN F)

Reg(i) == [kind |-> "reg", ino |-> i]
Symlink == [kind |-> "symlink", ino |-> 0]
IsReg(F, p) == p \in DOMAIN F /\ F[p].kind = "reg"

\* os.Rename(old, new): new is replaced if it exists; nothing happens when both
\* names are already links to the same file
RenameOK(F, old, new) == old \in DOMAIN F
Rename(F, old, new) ==
  IF new \in DOMAIN F /\ F[new] = F[old] /\ F[old].kind = "reg" THEN F
  ELSE [n \in (DOMAIN F \ {old}) \cup {new} |-> IF n = new THEN F[old] ELSE F[n]]

\* os.Link(old, new): fails when new exists
LinkOK(F, old, new) == IsReg(F, old) /\ new \notin DOMAIN F
Link(F, old, new) == [n \in DOMAIN F \cup {new} |-> IF n = new THEN F[old] ELSE F[n]]

\* os.Remove(name)
RemoveOK(F, name) == name \in DOMAIN F
Remove(F, name) == [n \in DOMAIN F \ {name} |-> F[n]]

\* ti.Sums[s] = append(ti.Sums[s], path)
AppendSum(S, s, path) ==
  IF s \in DOMAIN S THEN [S EXCEPT ![s] = Append(@, path)]
  ELSE [k \in DOMAIN S \cup {s} |-> IF k = s THEN <<path>> ELSE S[k]]

EmptyMap == [k \in {} |-> <<>>]
NoPath == <<>>
NoRun == [code |-> 0, at |-> "norun", mid |-> FALSE, dryrun |-> FALSE]

\* --------------------------------------------------------------------- state
VARIABLES
  fs,          \* the tree under root: path -> entry
  content,     \* inode -> content of the file
  dev,         \* inode -> filesystem the file is on
  unreadable,  \* inodes whose open or read is known to fail
  readable,    \* inodes whose open and read are known to succeed
  dryrun,      \* *dryrun
  jobs,        \* *jobs
  run,         \* number of the current invocation
  prev,        \* how the previous invocation ended
  fs0,         \* the tree when the current invocation started
  pc,          \* position of the main goroutine
  wi,          \* entries the walk has handed to process
  pathlist,    \* pathlist
  Inodes,      \* ti.Inodes
  ins,         \* inode -> number of times it was stored in ti.Inodes
  FileCount,   \* ti.FileCount
  spawned,     \* workers started
  si,          \* candidates sent on c
  closed,      \* c is closed
  wg,          \* the wait group's counter
  wpc,         \* worker -> position
  wpath,       \* worker -> path it is working on
  wsum,        \* worker -> s
  Sums,        \* ti.Sums
  RWLock,      \* holder of ti.RWLock, -1 when free
  pb,          \* units reported to the progress bar
  todo,        \* keys of ti.Sums the range in dedupe has not visited
  names,       \* dedupe: names
  idx,         \* dedupe: index into names of the inner loop
  size,        \* dedupe: size
  dpc,         \* dedupe: position inside the loop
  savings,     \* dedupe: savings
  DupeCount,   \* ti.DupeCount
  exitCode,    \* process exit status
  exitAt,      \* what ended the process
  fsOps        \* renames, links and removes done by this invocation

walkVars == <<wi, pathlist, Inodes, ins, FileCount>>
poolVars == <<spawned, si, closed, wg, wpc, wpath, wsum, Sums, RWLock>>
mergeVars == <<todo, names, idx, size, dpc, savings, DupeCount>>
envVars == <<content, dev, dryrun, jobs, run, prev, fs0>>
ioVars == <<unreadable, readable>>
exitVars == <<exitCode, exitAt>>
vars == <<fs, envVars, ioVars, pc, walkVars, poolVars, pb, mergeVars, exitVars, fsOps>>

\* ---------------------------------------------------------------------- Init
Bases == {<<BaseNames[i]>> : i \in 1..NumBases}
\* the name an interrupted merge leaves behind for base name b
StaleName(b) == b \o <<Suffix>>
IsStale(p) == Len(p) >= 2
UsedInos(F) == {F[p].ino : p \in {q \in DOMAIN F : F[q].kind = "reg"}}

\* the tree F with one more name decided: absent, a link to a file met earlier
\* in the walk, a new file (numbered next), or, under a temporary name, a
\* symlink; at most MaxLeftover temporary names are present
Extend(F, p) ==
  LET n == Cardinality(UsedInos(F))
      with(e) == [q \in DOMAIN F \cup {p} |-> IF q = p THEN e ELSE F[q]]
      stale == Cardinality({q \in DOMAIN F : IsStale(q)})
  IN IF IsStale(p)
     THEN IF stale >= MaxLeftover THEN {F}
          ELSE {F} \cup {with(Reg(i)) : i \in 1..(n + 1)} \cup {with(Symlink)}
     ELSE {F} \cup {with(Reg(i)) : i \in 1..(n + 1)}

AllNames == SortNames(Bases \cup {StaleName(b) : b \in Bases})

RECURSIVE TreesFrom(_, _)
TreesFrom(F, k) ==
  IF k > Len(AllNames) THEN {F}
  ELSE UNION {TreesFrom(G, k + 1) : G \in Extend(F, AllNames[k])}

\* regular files under some of the base names, and at most MaxLeftover entries
\* (regular files or symlinks) under temporary names
Trees == TreesFrom(EmptyMap, 1)

\* newTI() and the zero values of the globals
FreshProcess ==
  /\ pc = "walk"
  /\ wi = 0
  /\ pathlist = <<>>
  /\ Inodes = {}
  /\ ins = [i \in InoNums |-> 0]
  /\ FileCount = 0
  /\ spawned = 0
  /\ si = 0
  /\ closed = FALSE
  /\ wg = 0
  /\ wpc = [w \in WorkerIds |-> "none"]
  /\ wpath = [w \in WorkerIds |-> NoPath]
  /\ wsum = [w \in WorkerIds |-> NoPath]
  /\ Sums = EmptyMap
  /\ RWLock = -1
  /\ pb = 0
  /\ todo = {}
  /\ names = <<>>
  /\ idx = 0
  /\ size = 0
  /\ dpc = "range"
  /\ savings = 0
  /\ DupeCount = 0
  /\ exitCode = 0
  /\ exitAt = "running"
  /\ fsOps = 0

Init ==
  /\ fs \in Trees
  /\ content \in {c \in [InoNums -> Contents] :
                    \A i \in InoNums \ UsedInos(fs) : c[i] = "X"}
  /\ dev = [i \in InoNums |-> "rootfs"]
  /\ unreadable = {}
  /\ readable = {}
  /\ dryrun \in BOOLEAN
  /\ jobs \in -1..MaxJobs
  /\ run = 1
  /\ prev = NoRun
  /\ fs0 = fs
  /\ FreshProcess

\* root has a second filesystem mounted below it, and files on it
InitDev ==
  /\ fs \in Trees
  /\ content \in {c \in [InoNums -> Contents] :
                    \A i \in InoNums \ UsedInos(fs) : c[i] = "X"}
  /\ dev \in {d \in [InoNums -> Devices] :
                /\ \A i \in InoNums \ UsedInos(fs) : d[i] = "rootfs"
                /\ \E i \in UsedInos(fs) : d[i] = "mounted"}
  /\ unreadable = {}
  /\ readable = {}
  /\ dryrun \in BOOLEAN
  /\ jobs \in -1..MaxJobs
  /\ run = 1
  /\ prev = NoRun
  /\ fs0 = fs
  /\ FreshProcess

\* the error is logged and the run goes on
Exit_logged(at) ==
  /\ pc' = pc
  /\ exitCode' = exitCode
  /\ exitAt' = at

\* os.Exit(-1), or doD2hl returning -1
Exit(at) ==
  /\ pc' = "exited"
  /\ exitCode' = -1
  /\ exitAt' = at

\* ---------------------------------------------------------------------- walk
\* the test of ti.Inodes left out
Seen_never(ino) == FALSE

\* ok = ti.Inodes[stat.Ino]
Seen(ino) == ino \in Inodes

\* stat.Ino of a file: each filesystem numbers its own inodes, so the number
\* tells files of one filesystem apart and no more.  Here it is the rank of
\* the file among the files of its filesystem.
StatIno(i) == Cardinality({j \in 1..i : dev[j] = dev[i]})

\* treeinfo.process, called by filepath.Walk on the next entry
process ==
  /\ pc = "walk"
  /\ wi < Len(WalkSeq(fs))
  /\ LET path == WalkSeq(fs)[wi + 1]
         info == fs[path]
     IN IF info.kind # "reg"
        THEN /\ wi' = wi + 1
             /\ UNCHANGED <<pc, pathlist, Inodes, ins, FileCount, exitVars>>
        ELSE IF HasSuffix(path)
        THEN /\ Exit("leftover")
             /\ UNCHANGED walkVars
        ELSE IF Seen(StatIno(info.ino))
        THEN /\ wi' = wi + 1
             /\ FileCount' = FileCount + 1
             /\ UNCHANGED <<pc, pathlist, Inodes, ins, exitVars>>
        ELSE /\ wi' = wi + 1
             /\ FileCount' = FileCount + 1
             /\ Inodes' = Inodes \cup {StatIno(info.ino)}
             /\ ins' = [ins EXCEPT ![StatIno(info.ino)] = @ + 1]
             /\ pathlist' = Append(pathlist, path)
             /\ UNCHANGED <<pc, exitVars>>
  /\ UNCHANGED <<fs, envVars, ioVars, poolVars, pb, mergeVars, fsOps>>

\* filepath.Walk hands process an error (a directory it cannot read): process
\* returns it, Walk returns it and doD2hl returns -1
processErr ==
  /\ pc = "walk"
  /\ Exit("walkerr")
  /\ UNCHANGED <<fs, envVars, ioVars, walkVars, poolVars, pb, mergeVars, fsOps>>

\* filepath.Walk returns nil; the checksum progress bar is created
WalkReturn ==
  /\ pc = "walk"
  /\ wi = Len(WalkSeq(fs))
  /\ pc' = "pool"
  /\ pb' = 0
  /\ UNCHANGED <<fs, envVars, ioVars, walkVars, poolVars, mergeVars, exitVars, fsOps>>

\* --------------------------------------------------------- checksum stage
\* the loop runs while i <= *jobs: one worker more than asked for
Spawn_oneMore ==
  /\ pc = "pool"
  /\ spawned <= jobs
  /\ wpc' = [wpc EXCEPT ![spawned] = "recv"]
  /\ wg' = wg + 1
  /\ spawned' = spawned + 1
  /\ UNCHANGED <<fs, envVars, ioVars, pc, walkVars, si, closed, wpath, wsum, Sums, RWLock,
                 pb, mergeVars, exitVars, fsOps>>

\* go ti.checksum(i, c, &wg); wg.Add(1)
Spawn ==
  /\ pc = "pool"
  /\ spawned < jobs
  /\ wpc' = [wpc EXCEPT ![spawned] = "recv"]
  /\ wg' = wg + 1
  /\ spawned' = spawned + 1
  /\ UNCHANGED <<fs, envVars, ioVars, pc, walkVars, si, closed, wpath, wsum, Sums, RWLock,
                 pb, mergeVars, exitVars, fsOps>>

\* c <- path, met by worker w's receive in "for path := range p": c is unbuffered
Send(w) ==
  /\ pc = "pool"
  /\ spawned >= jobs
  /\ si < Len(pathlist)
  /\ wpc[w] = "recv"
  /\ si' = si + 1
  /\ wpath' = [wpath EXCEPT ![w] = pathlist[si + 1]]
  /\ wpc' = [wpc EXCEPT ![w] = "open"]
  /\ UNCHANGED <<fs, envVars, ioVars, pc, walkVars, spawned, closed, wg, wsum, Sums, RWLock,
                 pb, mergeVars, exitVars, fsOps>>

\* close(c) left out: the main goroutine goes to wg.Wait() with c open
Close_forgotten ==
  /\ pc = "pool"
  /\ spawned >= jobs
  /\ si = Len(pathlist)
  /\ pc' = "wait"
  /\ UNCHANGED <<fs, envVars, ioVars, walkVars, spawned, si, closed, wg, wpc, wpath, wsum,
                 Sums, RWLock, pb, mergeVars, exitVars, fsOps>>

\* close(c), then the main goroutine is at wg.Wait()
Close ==
  /\ pc = "pool"
  /\ spawned >= jobs
  /\ si = Len(pathlist)
  /\ closed' = TRUE
  /\ pc' = "wait"
  /\ UNCHANGED <<fs, envVars, ioVars, walkVars, spawned, si, wg, wpc, wpath, wsum, Sums,
                 RWLock, pb, mergeVars, exitVars, fsOps>>

\* the error of the read is dropped and the digest of what was read, nothing,
\* is filed
Hash_errIgnored(w) ==
  /\ wpc[w] = "open"
  /\ LET ino == IF IsReg(fs, wpath[w]) THEN fs[wpath[w]].ino ELSE 0
     IN \/ /\ ino # 0
           /\ ino \notin unreadable
           /\ readable' = readable \cup {ino}
           /\ wsum' = [wsum EXCEPT ![w] = Digest(content[ino])]
           /\ UNCHANGED unreadable
        \/ /\ ino \notin readable
           /\ unreadable' = IF ino = 0 THEN unreadable ELSE unreadable \cup {ino}
           /\ wsum' = [wsum EXCEPT ![w] = Digest("")]
           /\ UNCHANGED readable
  /\ wpc' = [wpc EXCEPT ![w] = "lock"]
  /\ UNCHANGED <<fs, envVars, pc, walkVars, spawned, si, closed, wg, wpath, Sums, RWLock,
                 pb, mergeVars, exitVars, fsOps>>

\* os.Open, blake2b.New256, io.Copy, Sprintf: a failed open or read continues
\* with the next path.  Whether a file can be read is a fact of the tree the
\* program does not change: it is settled the first time the file is opened.
Hash(w) ==
  /\ wpc[w] = "open"
  /\ LET ino == IF IsReg(fs, wpath[w]) THEN fs[wpath[w]].ino ELSE 0
     IN \/ /\ ino # 0
           /\ ino \notin unreadable
           /\ readable' = readable \cup {ino}
           /\ wsum' = [wsum EXCEPT ![w] = Digest(content[ino])]
           /\ wpc' = [wpc EXCEPT ![w] = "lock"]
           /\ UNCHANGED <<wpath, unreadable>>
        \/ /\ ino \notin readable
           /\ unreadable' = IF ino = 0 THEN unreadable ELSE unreadable \cup {ino}
           /\ wpc' = [wpc EXCEPT ![w] = "recv"]
           /\ wpath' = [wpath EXCEPT ![w] = NoPath]
           /\ UNCHANGED <<wsum, readable>>
  /\ UNCHANGED <<fs, envVars, pc, walkVars, spawned, si, closed, wg, Sums, RWLock,
                 pb, mergeVars, exitVars, fsOps>>

\* ti.RWLock.RLock(): the read lock, which does not keep other holders out
Lock_shared(w) ==
  /\ wpc[w] = "lock"
  /\ RWLock' = w
  /\ wpc' = [wpc EXCEPT ![w] = "crit"]
  /\ UNCHANGED <<fs, envVars, ioVars, pc, walkVars, spawned, si, closed, wg, wpath, wsum,
                 Sums, pb, mergeVars, exitVars, fsOps>>

\* ti.RWLock.Lock()
Lock(w) ==
  /\ wpc[w] = "lock"
  /\ RWLock = -1
  /\ RWLock' = w
  /\ wpc' = [wpc EXCEPT ![w] = "crit"]
  /\ UNCHANGED <<fs, envVars, ioVars, pc, walkVars, spawned, si, closed, wg, wpath, wsum,
                 Sums, pb, mergeVars, exitVars, fsOps>>

\* s is one variable shared by the workers: the append files the path under
\* whatever the first worker computed last
AppendUnlock_sharedSum(w) ==
  /\ wpc[w] = "crit"
  /\ Sums' = AppendSum(Sums, wsum[0], wpath[w])
  /\ RWLock' = -1
  /\ pb' = pb + 1
  /\ wpc' = [wpc EXCEPT ![w] = "recv"]
  /\ wpath' = [wpath EXCEPT ![w] = NoPath]
  /\ wsum' = [wsum EXCEPT ![w] = NoPath]
  /\ UNCHANGED <<fs, envVars, ioVars, pc, walkVars, spawned, si, closed, wg, mergeVars,
                 exitVars, fsOps>>

\* ti.Sums[s] = append(ti.Sums[s], path); ti.RWLock.Unlock(); ti.pb.Add(1)
AppendUnlock(w) ==
  /\ wpc[w] = "crit"
  /\ Sums' = AppendSum(Sums, wsum[w], wpath[w])
  /\ RWLock' = -1
  /\ pb' = pb + 1
  /\ wpc' = [wpc EXCEPT ![w] = "recv"]
  /\ wpath' = [wpath EXCEPT ![w] = NoPath]
  /\ wsum' = [wsum EXCEPT ![w] = NoPath]
  /\ UNCHANGED <<fs, envVars, ioVars, pc, walkVars, spawned, si, closed, wg, mergeVars,
                 exitVars, fsOps>>

\* the range over the closed channel ends; defer wg.Done()
WorkerExit(w) ==
  /\ wpc[w] = "recv"
  /\ closed
  /\ wpc' = [wpc EXCEPT ![w] = "exit"]
  /\ wg' = wg - 1
  /\ UNCHANGED <<fs, envVars, ioVars, pc, walkVars, spawned, si, closed, wpath, wsum, Sums,
                 RWLock, pb, mergeVars, exitVars, fsOps>>

\* wg.Wait() left out
Joined_nowait == TRUE

\* wg.Wait() may return
Joined == wg = 0

\* wg.Wait() returns and dedupe starts: savings is 0, the progress bar is new
Wait ==
  /\ pc = "wait"
  /\ Joined
  /\ pc' = "dedupe"
  /\ pb' = 0
  /\ todo' = DOMAIN Sums
  /\ savings' = 0
  /\ dpc' = "range"
  /\ UNCHANGED <<fs, envVars, ioVars, walkVars, poolVars, names, idx, size, DupeCount,
                 exitVars, fsOps>>

\* --------------------------------------------------------------- merge stage
\* first := names[0]
First(ns) == ns[1]

\* the inner loop goes on with the next name, or the range with the next bucket
Advance ==
  IF idx < Len(names)
  THEN /\ idx' = idx + 1
       /\ dpc' = "loop"
       /\ UNCHANGED <<names, size>>
  ELSE /\ idx' = 0
       /\ names' = <<>>
       /\ size' = 0
       /\ dpc' = "range"

\* one iteration of "for _, names := range ti.Sums" up to the inner loop:
\* pb.Add, the length test, os.Stat(first)
DedupeRange ==
  /\ pc = "dedupe"
  /\ dpc = "range"
  /\ \E s \in todo :
       /\ todo' = todo \ {s}
       /\ pb' = pb + 1
       /\ IF Len(Sums[s]) <= 1
          THEN UNCHANGED <<pc, names, idx, size, dpc, exitVars>>
          ELSE \E ok \in BOOLEAN :
                 IF ok /\ IsReg(fs, First(Sums[s]))
                 THEN /\ names' = Sums[s]
                      /\ size' = Size(content[fs[First(Sums[s])].ino])
                      /\ idx' = 2
                      /\ dpc' = "loop"
                      /\ UNCHANGED <<pc, exitVars>>
                 ELSE /\ Exit("stat")
                      /\ UNCHANGED <<names, idx, size, dpc>>
  /\ UNCHANGED <<fs, envVars, ioVars, walkVars, poolVars, savings, DupeCount, fsOps>>

\* the flag is not looked at
DryRun_ignored == FALSE

\* if *dryrun
DryRun == dryrun

\* the dry-run branch of the inner loop, then savings += size; ti.DupeCount++
DedupeDry ==
  /\ pc = "dedupe"
  /\ dpc = "loop"
  /\ DryRun
  /\ savings' = savings + size
  /\ DupeCount' = DupeCount + 1
  /\ Advance
  /\ UNCHANGED <<fs, envVars, ioVars, pc, walkVars, poolVars, pb, todo, exitVars, fsOps>>

\* os.Remove(name) in place of os.Rename(name, tmpname): the original is
\* deleted before the link exists
DedupeRename_remove ==
  /\ pc = "dedupe"
  /\ dpc = "loop"
  /\ ~DryRun
  /\ \E ok \in BOOLEAN :
       IF ok /\ RemoveOK(fs, names[idx])
       THEN /\ fs' = Remove(fs, names[idx])
            /\ fsOps' = fsOps + 1
            /\ dpc' = "link"
            /\ UNCHANGED <<pc, exitVars>>
       ELSE /\ Exit("rename")
            /\ UNCHANGED <<fs, fsOps, dpc>>
  /\ UNCHANGED <<envVars, ioVars, walkVars, poolVars, pb, todo, names, idx, size,
                 savings, DupeCount>>

\* os.Rename(name, tmpname)
DedupeRename ==
  /\ pc = "dedupe"
  /\ dpc = "loop"
  /\ ~DryRun
  /\ \E ok \in BOOLEAN :
       IF ok /\ RenameOK(fs, names[idx], tmpname(names[idx]))
       THEN /\ fs' = Rename(fs, names[idx], tmpname(names[idx]))
            /\ fsOps' = fsOps + 1
            /\ dpc' = "link"
            /\ UNCHANGED <<pc, exitVars>>
       ELSE /\ Exit("rename")
            /\ UNCHANGED <<fs, fsOps, dpc>>
  /\ UNCHANGED <<envVars, ioVars, walkVars, poolVars, pb, todo, names, idx, size, savings,
                 DupeCount>>

\* a hard link cannot leave the filesystem of the file: os.Link fails with
\* EXDEV when the directory of the new name is on another one.  A name stays
\* in the directory it was found in.
SameDevice(old, new) ==
  /\ old \in DOMAIN fs
  /\ new \in DOMAIN fs0
  /\ dev[fs[old].ino] = dev[fs0[new].ino]

\* os.Link(tmpname, name): the new name is linked to the file it had
DedupeLink_fromTemp ==
  /\ pc = "dedupe"
  /\ dpc = "link"
  /\ \E ok \in BOOLEAN :
       IF ok /\ LinkOK(fs, tmpname(names[idx]), names[idx])
       THEN /\ fs' = Link(fs, tmpname(names[idx]), names[idx])
            /\ fsOps' = fsOps + 1
            /\ dpc' = "remove"
            /\ UNCHANGED <<pc, exitVars>>
       ELSE /\ Exit("link")
            /\ UNCHANGED <<fs, fsOps, dpc>>
  /\ UNCHANGED <<envVars, ioVars, walkVars, poolVars, pb, todo, names, idx, size, savings,
                 DupeCount>>

\* os.Link(first, name)
DedupeLink ==
  /\ pc = "dedupe"
  /\ dpc = "link"
  /\ \E ok \in BOOLEAN :
       IF ok /\ LinkOK(fs, First(names), names[idx]) /\ SameDevice(First(names), names[idx])
       THEN /\ fs' = Link(fs, First(names), names[idx])
            /\ fsOps' = fsOps + 1
            /\ dpc' = "remove"
            /\ UNCHANGED <<pc, exitVars>>
       ELSE /\ Exit("link")
            /\ UNCHANGED <<fs, fsOps, dpc>>
  /\ UNCHANGED <<envVars, ioVars, walkVars, poolVars, pb, todo, names, idx, size, savings,
                 DupeCount>>

\* the counters advance in the dry-run branch only
DedupeRemove_nocount ==
  /\ pc = "dedupe"
  /\ dpc = "remove"
  /\ \E ok \in BOOLEAN :
       IF ok /\ RemoveOK(fs, tmpname(names[idx]))
       THEN /\ fs' = Remove(fs, tmpname(names[idx]))
            /\ fsOps' = fsOps + 1
            /\ Advance
            /\ UNCHANGED <<pc, exitVars, savings, DupeCount>>
       ELSE /\ Exit("remove")
            /\ UNCHANGED <<fs, fsOps, names, idx, size, dpc, savings, DupeCount>>
  /\ UNCHANGED <<envVars, ioVars, walkVars, poolVars, pb, todo>>

\* os.Remove(tmpname), then savings += size; ti.DupeCount++
DedupeRemove ==
  /\ pc = "dedupe"
  /\ dpc = "remove"
  /\ \E ok \in BOOLEAN :
       IF ok /\ RemoveOK(fs, tmpname(names[idx]))
       THEN /\ fs' = Remove(fs, tmpname(names[idx]))
            /\ fsOps' = fsOps + 1
            /\ savings' = savings + size
            /\ DupeCount' = DupeCount + 1
            /\ Advance
            /\ UNCHANGED <<pc, exitVars>>
       ELSE /\ Exit("remove")
            /\ UNCHANGED <<fs, fsOps, names, idx, size, dpc, savings, DupeCount>>
  /\ UNCHANGED <<envVars, ioVars, walkVars, poolVars, pb, todo>>

\* the range is over: dedupe returns savings and doD2hl returns 0
DedupeReturn ==
  /\ pc = "dedupe"
  /\ dpc = "range"
  /\ todo = {}
  /\ pc' = "done"
  /\ exitCode' = 0
  /\ exitAt' = "return"
  /\ UNCHANGED <<fs, envVars, ioVars, walkVars, poolVars, pb, mergeVars, fsOps>>

\* the process is killed by a signal while it merges
Interrupt ==
  /\ pc = "dedupe"
  /\ Exit("signal")
  /\ UNCHANGED <<fs, envVars, ioVars, walkVars, poolVars, pb, mergeVars, fsOps>>

\* the process stopped between the rename of a duplicate and the removal of
\* its temporary name
MidReplace ==
  \/ exitAt \in {"link", "remove"}
  \/ exitAt = "signal" /\ dpc \in {"link", "remove"}

\* the operator runs the program again on the tree the last run left.  A run
\* that stopped in the walk has left the tree as it found it.
Rerun ==
  /\ pc = "done" \/ (pc = "exited" /\ exitAt \in {"stat", "rename", "link", "remove", "signal"})
  /\ run < MaxRuns
  /\ run' = run + 1
  /\ prev' = [code |-> exitCode, at |-> exitAt, mid |-> MidReplace, dryrun |-> dryrun]
  /\ fs0' = fs
  /\ pc' = "walk"
  /\ wi' = 0
  /\ pathlist' = <<>>
  /\ Inodes' = {}
  /\ ins' = [i \in InoNums |-> 0]
  /\ FileCount' = 0
  /\ spawned' = 0
  /\ si' = 0
  /\ closed' = FALSE
  /\ wg' = 0
  /\ wpc' = [w \in WorkerIds |-> "none"]
  /\ wpath' = [w \in WorkerIds |-> NoPath]
  /\ wsum' = [w \in WorkerIds |-> NoPath]
  /\ Sums' = EmptyMap
  /\ RWLock' = -1
  /\ pb' = 0
  /\ todo' = {}
  /\ names' = <<>>
  /\ idx' = 0
  /\ size' = 0
  /\ dpc' = "range"
  /\ savings' = 0
  /\ DupeCount' = 0
  /\ exitCode' = 0
  /\ exitAt' = "running"
  /\ fsOps' = 0
  /\ UNCHANGED <<fs, content, dev, ioVars, dryrun, jobs>>

Next ==
  \/ process
  \/ processErr
  \/ WalkReturn
  \/ Spawn
  \/ \E w \in WorkerIds : Send(w)
  \/ Close
  \/ \E w \in WorkerIds : Hash(w)
  \/ \E w \in WorkerIds : Lock(w)
  \/ \E w \in WorkerIds : AppendUnlock(w)
  \/ \E w \in WorkerIds : WorkerExit(w)
  \/ Wait
  \/ DedupeRange
  \/ DedupeDry
  \/ DedupeRename
  \/ DedupeLink
  \/ DedupeRemove
  \/ DedupeReturn
  \/ Interrupt
  \/ Rerun

Spec == Init /\ [][Next]_vars

\* a step of the dispatcher or of a worker of the checksum stage
PoolStep ==
  \/ Spawn
  \/ \E w \in WorkerIds : Send(w)
  \/ Close
  \/ \E w \in WorkerIds : Hash(w)
  \/ \E w \in WorkerIds : Lock(w)
  \/ \E w \in WorkerIds : AppendUnlock(w)
  \/ \E w \in WorkerIds : WorkerExit(w)
  \/ Wait

\* the Go scheduler does not leave a runnable goroutine waiting forever: while
\* the main goroutine or a worker can take a step of the checksum stage, one
\* of them does
FairSpec == Init /\ [][Next]_vars /\ WF_vars(PoolStep)

\* the program run on a tree that spans two filesystems
SpecDev == InitDev /\ [][Next]_vars

\* ------------------------------------------------------------------ claims
\* what the claims speak of, stated apart from the definitions of the model
TempOf(p) == p \o <<".tmpdedupe">>
TempNamed(p) == Len(p) >= 1 /\ p[Len(p)] = ".tmpdedupe"
RegularAt(F, p) == p \in DOMAIN F /\ F[p].kind = "reg"
ContentAt(F, p) == content[F[p].ino]
HasLeftover(F) == \E p \in DOMAIN F : RegularAt(F, p) /\ TempNamed(p)
MergeExits == {"stat", "rename", "link", "remove", "signal"}
InMerge == pc \in {"dedupe", "done"} \/ (pc = "exited" /\ exitAt \in MergeExits)
Traversed == pc \in {"pool", "wait"} \/ InMerge
Buckets == {Sums[s] : s \in DOMAIN Sums}
NonCanonical == UNION {{b[i] : i \in 2..Len(b)} : b \in Buckets}

RECURSIVE PlannedDupes(_, _)
PlannedDupes(S, K) ==
  IF K = {} THEN 0
  ELSE LET k == CHOOSE x \in K : TRUE
       IN (IF Len(S[k]) >= 2 THEN Len(S[k]) - 1 ELSE 0) + PlannedDupes(S, K \ {k})

RECURSIVE PlannedSavings(_, _, _)
PlannedSavings(S, K, F) ==
  IF K = {} THEN 0
  ELSE LET k == CHOOSE x \in K : TRUE
       IN (IF Len(S[k]) >= 2
           THEN (Len(S[k]) - 1) * (IF ContentAt(F, S[k][1]) = "X" THEN 1 ELSE 2)
           ELSE 0) + PlannedSavings(S, K \ {k}, F)

\* C1: content preservation.  When a run has completed successfully, every path
\* that named a regular file when the run started still names a regular file,
\* with the content it had then.
C1_ContentPreserved ==
  pc = "done" =>
    \A p \in DOMAIN fs0 :
      RegularAt(fs0, p) => RegularAt(fs, p) /\ ContentAt(fs, p) = ContentAt(fs0, p)

\* C1 witness: a real run is done, one path was merged onto another inode, a
\* second path of the same tree was dropped by the collector as a hardlink.
C1_Witness ==
  /\ pc = "done"
  /\ ~dryrun
  /\ \E p \in DOMAIN fs0 : RegularAt(fs0, p) /\ fs[p].ino # fs0[p].ino
  /\ Len(pathlist) < Cardinality({p \in DOMAIN fs0 : RegularAt(fs0, p)})

\* the original content of p is under p or under p + ".tmpdedupe"
Recoverable(p) ==
  \/ RegularAt(fs, p) /\ ContentAt(fs, p) = ContentAt(fs0, p)
  \/ RegularAt(fs, TempOf(p)) /\ fs[TempOf(p)] = fs0[p]

\* C2: recoverable trail.  In every state of the merge stage, also after the
\* run stopped on a failed rename, link or remove or was killed, the original
\* content of every non-canonical path p is under p or under p + ".tmpdedupe";
\* and a temporary name goes away only in a step before which p is already a
\* link to the canonical file.
C2_RecoverableTrail ==
  /\ [](InMerge => \A p \in NonCanonical : Recoverable(p))
  /\ [][\A p \in NonCanonical :
          (TempOf(p) \in DOMAIN fs /\ TempOf(p) \notin DOMAIN fs')
            => RegularAt(fs, p) /\ names # <<>> /\ fs[p] = fs[names[1]]]_vars

\* C2 witness: the run stopped between rename and remove, and the original of
\* the duplicate is under its temporary name only.
C2_Witness ==
  /\ pc = "exited"
  /\ exitAt \in {"link", "signal"}
  /\ \E p \in NonCanonical : p \notin DOMAIN fs /\ RegularAt(fs, TempOf(p))

\* C3: after a successful real run without read failures, all paths with the
\* same content share one inode, the paths the collector dropped as
\* pre-existing hardlinks included.
C3_AllDuplicatesShareInode ==
  (pc = "done" /\ ~dryrun /\ unreadable = {}) =>
    \A p, q \in DOMAIN fs :
      (RegularAt(fs, p) /\ RegularAt(fs, q) /\ ContentAt(fs, p) = ContentAt(fs, q))
        => fs[p].ino = fs[q].ino

\* C4: idempotence.  A run that follows a successful real run reports no
\* duplicate and no saving and does no rename, link or remove.
C4_Idempotent ==
  (run >= 2 /\ prev.at = "return" /\ prev.code = 0 /\ ~prev.dryrun) =>
    DupeCount = 0 /\ savings = 0 /\ fsOps = 0

\* the first path of the walk on inode i
FirstPathOn(F, i) ==
  CHOOSE p \in DOMAIN F :
    /\ F[p] = [kind |-> "reg", ino |-> i]
    /\ \A q \in DOMAIN F : (q # p /\ F[q] = F[p]) => LexLess(p, q)

\* C5: inode dedup.  No inode is stored in the inode set twice; after the
\* traversal no two candidates share an inode, and for each inode with a
\* regular file under root the one candidate is its first path in walk order.
C5_InodeDedup ==
  /\ \A i \in InoNums : ins[i] <= 1
  /\ Traversed =>
       /\ \A j, k \in 1..Len(pathlist) :
            j # k => fs0[pathlist[j]].ino # fs0[pathlist[k]].ino
       /\ \A i \in {fs0[p].ino : p \in {q \in DOMAIN fs0 : RegularAt(fs0, q)}} :
            {j \in 1..Len(pathlist) : fs0[pathlist[j]].ino = i}
              = {j \in 1..Len(pathlist) : pathlist[j] = FirstPathOn(fs0, i)}
            /\ \E j \in 1..Len(pathlist) : pathlist[j] = FirstPathOn(fs0, i)

\* C5 witness: the traversal is over, two paths were on one inode and a third
\* file was queued besides.
C5_Witness ==
  /\ Traversed
  /\ Len(pathlist) >= 2
  /\ \E p, q \in DOMAIN fs0 : p # q /\ RegularAt(fs0, p) /\ fs0[p] = fs0[q]

\* C6: savings accounting.  When the merge stage has returned, DupeCount is the
\* sum of len - 1 over the buckets of two or more paths, and savings is the sum
\* over those paths of the size of the first file of their bucket.
C6_SavingsAccounting ==
  pc = "done" =>
    /\ DupeCount = PlannedDupes(Sums, DOMAIN Sums)
    /\ savings = PlannedSavings(Sums, DOMAIN Sums, fs0)

\* C6 witness: a real run is done in which two duplicates were collapsed.
C6_Witness == pc = "done" /\ ~dryrun /\ DupeCount >= 2 /\ savings >= 2

\* C7: dry-run no-op.  With dry-run set the tree stays as the run found it and
\* no rename, link or remove is done; the counters it reports are those a real
\* run reports for the same buckets.
C7_DryRunNoOp ==
  dryrun =>
    /\ fs = fs0
    /\ fsOps = 0
    /\ pc = "done" =>
         /\ DupeCount = PlannedDupes(Sums, DOMAIN Sums)
         /\ savings = PlannedSavings(Sums, DOMAIN Sums, fs)

\* C7 witness: a dry run is done and has reported a duplicate.
C7_Witness == dryrun /\ pc = "done" /\ DupeCount >= 1

\* C8: leftover temporary file.  If a regular file with the reserved suffix is
\* under root when the walk starts, the walk never gets past it, the run ends
\* there with a non-zero status, no worker is started, no bucket is filled and
\* no rename, link or remove is done.
C8_LeftoverAborts ==
  HasLeftover(fs0) =>
    /\ pc \in {"walk", "exited"}
    /\ pc = "exited" => exitCode # 0 /\ exitAt \in {"leftover", "walkerr"}
    /\ \A k \in 1..wi : ~(RegularAt(fs0, WalkSeq(fs0)[k]) /\ TempNamed(WalkSeq(fs0)[k]))
    /\ \A w \in WorkerIds : wpc[w] = "none"
    /\ si = 0
    /\ Sums = EmptyMap
    /\ fsOps = 0
    /\ fs = fs0

\* C8 witness: the run was ended by the leftover file after a candidate had
\* been queued.
C8_Witness ==
  /\ run = 1
  /\ pc = "exited"
  /\ exitAt = "leftover"
  /\ Len(pathlist) >= 1

\* C9: interrupted-run detection.  A real run that stops after the rename of a
\* duplicate and before the removal of its temporary name leaves the temporary
\* file on disk; the next run ends in the collector with a non-zero status,
\* hashes and merges nothing and leaves the remnant where it is.
C9_InterruptedRunDetected ==
  /\ (pc = "exited" /\ MidReplace) => RegularAt(fs, TempOf(names[idx]))
  /\ (run >= 2 /\ prev.mid) =>
       /\ HasLeftover(fs)
       /\ fs = fs0
       /\ pc \in {"walk", "exited"}
       /\ pc = "exited" => exitCode # 0 /\ exitAt \in {"leftover", "walkerr"}
       /\ \A w \in WorkerIds : wpc[w] = "none"
       /\ Sums = EmptyMap
       /\ fsOps = 0

\* C9 witness: the run after an interrupted merge was ended by the remnant.
C9_Witness ==
  /\ run = 2
  /\ prev.mid
  /\ pc = "exited"
  /\ exitAt = "leftover"

\* C10: stage ordering.  Once the merge stage has started every candidate has
\* been sent, the channel is closed and every worker has returned; and no step
\* taken while the merge runs writes the bucket map.
C10_StageOrdering ==
  /\ [](InMerge =>
          /\ si = Len(pathlist)
          /\ closed
          /\ RWLock = -1
          /\ \A w \in WorkerIds : wpc[w] \in {"none", "exit"}
          /\ \A w \in WorkerIds : w < jobs => wpc[w] = "exit")
  /\ [][pc = "dedupe" => Sums' = Sums]_vars

\* C10 witness: the merge is at work on the tree after two workers have
\* returned.
C10_Witness ==
  /\ pc = "dedupe"
  /\ dpc = "link"
  /\ jobs = 2
  /\ Len(pathlist) >= 2

\* C11: the merge is fail-stop.  When the stat of a canonical file, or the
\* rename, link or remove of a duplicate fails, the run is over with a
\* non-zero exit status; the failing step and every later step of that run
\* leave the tree as it is, so nothing more is renamed, linked or removed and
\* what was merged before the failure stays merged.
MergeFailures == {"stat", "rename", "link", "remove"}
C11_FailStop ==
  /\ [](exitAt \in MergeFailures => pc = "exited" /\ exitCode # 0)
  /\ [][exitAt' \in MergeFailures /\ exitAt \notin MergeFailures
          => fs' = fs /\ fsOps' = fsOps]_vars
  /\ [][pc = "exited" => fs' = fs]_vars

\* the link of a second duplicate has failed after the first duplicate of the
\* bucket was merged, and the first one is still a link to the canonical file
C11_Witness ==
  /\ pc = "exited"
  /\ exitAt = "link"
  /\ idx = 3
  /\ fsOps = 4
  /\ names[2] \in DOMAIN fs
  /\ fs[names[2]] = fs[names[1]]
  /\ fs0[names[2]] # fs0[names[1]]

\* C12: every candidate path taken from the queue advances the progress bar
\* by one, whether its hashing succeeded or failed, so when all workers have
\* finished the bar stands at the number of candidate paths.
ChecksumStageDone == pc = "wait" /\ closed /\ wg = 0
C12_ProgressPerCandidate == ChecksumStageDone => pb = Len(pathlist)

\* C13: a file that cannot be read does not stop the run.  The failed path is
\* put in no bucket and is not taken up again, the worker that hit the error
\* goes back to the queue, and when the checksum stage is over every candidate
\* that was read is in the bucket of the digest of its content.
InBucket(p, s) == s \in DOMAIN Sums /\ \E i \in 1..Len(Sums[s]) : Sums[s][i] = p
Bucketed(p) == \E s \in DOMAIN Sums : InBucket(p, s)
ReadFailed(p) == p \in DOMAIN fs0 /\ fs0[p].ino \in unreadable
C13_ReadFailureNonFatal ==
  /\ [](\A j \in 1..Len(pathlist) : ReadFailed(pathlist[j]) => ~Bucketed(pathlist[j]))
  /\ [](ChecksumStageDone \/ InMerge =>
          \A j \in 1..si :
            ~ReadFailed(pathlist[j]) =>
               InBucket(pathlist[j], <<"blake2b", ContentAt(fs0, pathlist[j])>>))
  /\ [][\A w \in WorkerIds :
          wpc[w] = "open" /\ wpc'[w] # "open"
            => /\ wpc'[w] \in {"lock", "recv"}
               /\ wpc'[w] = "recv" => wpath'[w] = NoPath
               /\ pc' = pc /\ si' = si /\ exitCode' = exitCode]_vars

\* the only worker failed on the first candidate, took the second one, and the
\* stage is over with the second one in its bucket
C13_Witness ==
  /\ ChecksumStageDone
  /\ jobs = 1
  /\ Len(pathlist) = 2
  /\ ReadFailed(pathlist[1])
  /\ ~Bucketed(pathlist[1])
  /\ Bucketed(pathlist[2])

\* C14: no append is lost, duplicated or misplaced.  Every candidate sent is
\* accounted for once: it is in the hands of one worker, or once in one
\* bucket, or its read has failed; a candidate not yet sent is nowhere.  The
\* write lock has one holder, the only worker that is appending.  When the
\* stage is over each candidate that was read is once in the bucket of the
\* digest of its content and in no other.
Held(p) == Cardinality({w \in WorkerIds : wpath[w] = p})
Occurrences(p) ==
  Cardinality({<<s, i>> \in (DOMAIN Sums) \X (1..Len(pathlist)) :
                  i <= Len(Sums[s]) /\ Sums[s][i] = p})
C14_AppendsExact ==
  /\ \A j \in 1..Len(pathlist) :
       LET p == pathlist[j]
       IN IF j > si /\ pc \in {"walk", "pool"}
          THEN Held(p) = 0 /\ Occurrences(p) = 0
          ELSE IF pc \in {"pool", "wait"} \/ InMerge
          THEN /\ Held(p) + Occurrences(p) <= 1
               /\ ~ReadFailed(p) => Held(p) + Occurrences(p) = 1
          ELSE TRUE
  /\ \A w, v \in WorkerIds : wpc[w] = "crit" /\ wpc[v] = "crit" => w = v
  /\ \A w \in WorkerIds : wpc[w] = "crit" <=> RWLock = w
  /\ ChecksumStageDone \/ InMerge =>
       \A j \in 1..Len(pathlist) :
         LET p == pathlist[j]
         IN ~ReadFailed(p) =>
              /\ Occurrences(p) = 1
              /\ InBucket(p, <<"blake2b", ContentAt(fs0, p)>>)

\* two workers have each appended a path of the same content to one bucket
C14_Witness ==
  /\ ChecksumStageDone
  /\ jobs = 2
  /\ \E s \in DOMAIN Sums : Len(Sums[s]) = 3
  /\ unreadable = {}

\* C15: the checksum stage terminates.  With one worker or more and any
\* candidate list, the empty one included, under fair scheduling the
\* dispatcher sends every candidate in traversal order and closes the queue,
\* every worker leaves its receive loop, and the join returns, so the merge
\* stage starts.
C15_ChecksumStageTerminates ==
  /\ (pc = "pool" /\ jobs >= 1) ~> (pc = "dedupe")
  /\ [][si' # si /\ pc = "pool" =>
          /\ si' = si + 1
          /\ \E w \in WorkerIds : wpath'[w] = pathlist[si']]_vars
  /\ [][pc = "pool" /\ pc' = "wait" => closed' /\ si = Len(pathlist)]_vars
  /\ [][pc = "wait" /\ pc' = "dedupe" =>
          \A w \in WorkerIds : w < jobs => wpc[w] = "exit"]_vars

\* the merge stage has started after two workers took three candidates
C15_Witness ==
  /\ pc = "dedupe"
  /\ dpc = "range"
  /\ jobs = 2
  /\ si = 3
  /\ closed
  /\ \A w \in WorkerIds : wpc[w] = "exit"

\* C16: the collector drops a regular file only when a file of the same
\* identity, device and inode number together, was recorded before it; two
\* regular files that differ in device or in inode number are both appended,
\* equal inode numbers on two devices included.
Identity(p) == <<dev[fs0[p].ino], StatIno(fs0[p].ino)>>
Queued(p) == \E j \in 1..Len(pathlist) : pathlist[j] = p
C16_DeviceAndInode ==
  Traversed =>
    \A p \in DOMAIN fs0 :
      RegularAt(fs0, p) /\ ~Queued(p) =>
        \E q \in DOMAIN fs0 :
          RegularAt(fs0, q) /\ Queued(q) /\ Identity(q) = Identity(p)

\* C17: after a real run has returned, in each bucket of two or more paths the
\* first path is on the inode it had and every other path is on that same
\* inode; every regular file that is alone in its bucket or in no bucket is on
\* the inode it had; no temporary name the merge made is left.
C17_MergeEffect ==
  pc = "done" /\ ~dryrun =>
    /\ \A b \in Buckets :
         /\ RegularAt(fs, b[1]) /\ fs[b[1]] = fs0[b[1]]
         /\ \A i \in 2..Len(b) : RegularAt(fs, b[i]) /\ fs[b[i]] = fs0[b[1]]
    /\ \A p \in DOMAIN fs0 :
         RegularAt(fs0, p) /\ p \notin NonCanonical =>
           RegularAt(fs, p) /\ fs[p] = fs0[p]
    /\ \A p \in NonCanonical : TempOf(p) \notin DOMAIN fs

\* a bucket of two was merged next to a file that is alone in its bucket
C17_Witness ==
  /\ pc = "done"
  /\ ~dryrun
  /\ fsOps = 3
  /\ \E b \in Buckets : Len(b) = 2 /\ fs0[b[2]] # fs0[b[1]] /\ fs[b[2]] = fs[b[1]]
  /\ \E b \in Buckets : Len(b) = 1

\* C18: the rename never replaces an entry.  When the merge is about to rename
\* a duplicate p to p.tmpdedupe, nothing is at p.tmpdedupe: no regular file,
\* no symlink, no entry of any other kind.
AtRename == pc = "dedupe" /\ dpc = "loop" /\ ~dryrun /\ idx >= 2 /\ idx <= Len(names)
C18_RenameNoClobber == AtRename => TempOf(names[idx]) \notin DOMAIN fs

\* C19: what a run reports does not depend on scheduling.  For a tree in which
\* every file can be read, a run that returns reports totals that are a
\* function of the tree it started on alone: whatever the number of workers
\* (one or more), their interleaving, the order of paths in the buckets and
\* the order in which the buckets are visited, duplicatesCollapsed is the
\* number of files beyond the first for each content, bytesSaved is the sum of
\* their sizes, and every path has the content it had.  Two such runs on the
\* same tree therefore agree.
FilesWith(F, c) == {i \in UsedInos(F) : content[i] = c}
Beyond(F, c) == IF FilesWith(F, c) = {} THEN 0 ELSE Cardinality(FilesWith(F, c)) - 1
TreeDupes(F) == Beyond(F, "X") + Beyond(F, "Y")
TreeSavings(F) == Beyond(F, "X") * 1 + Beyond(F, "Y") * 2
NoReadFailure == \A i \in UsedInos(fs0) : i \notin unreadable
C19_TotalsScheduleFree ==
  pc = "done" /\ jobs >= 1 /\ NoReadFailure =>
    /\ DupeCount = TreeDupes(fs0)
    /\ savings = TreeSavings(fs0)
    /\ \A p \in DOMAIN fs0 :
         RegularAt(fs0, p) => RegularAt(fs, p) /\ ContentAt(fs, p) = ContentAt(fs0, p)

\* two workers have filed three files of two contents, the later file of the
\* tree became the canonical one of its bucket, and the run has returned
C19_Witness ==
  /\ pc = "done"
  /\ jobs = 2
  /\ ~dryrun
  /\ NoReadFailure
  /\ Len(pathlist) = 3
  /\ DupeCount = 1
  /\ \E b \in Buckets : Len(b) = 2 /\ LexLess(b[2], b[1])

\* C20: with a worker count of zero or less no worker is ever started and no
\* bucket is ever filled.  If the candidate list is not empty the dispatcher
\* is stuck at its first send: nothing was sent, the queue is open, no step of
\* the program is possible and the merge is never reached.  If the candidate
\* list is empty the run goes on to close the queue, pass the join and start
\* the merge over an empty bucket map.
NoWorkers == jobs <= 0
C20_ZeroWorkerDeadlock ==
  /\ [](NoWorkers =>
          /\ spawned = 0 /\ wg = 0 /\ si = 0
          /\ \A w \in WorkerIds : wpc[w] = "none"
          /\ Sums = EmptyMap)
  /\ [](NoWorkers /\ Len(pathlist) > 0 /\ pc \notin {"walk", "exited"} =>
          pc = "pool" /\ ~closed /\ ~ENABLED Next)
  /\ [](NoWorkers /\ InMerge => pathlist = <<>> /\ todo = {})
  /\ (NoWorkers /\ pc = "pool" /\ pathlist = <<>>) ~> (pc = "dedupe")

\* the dispatcher is stuck with two candidates and no worker
C20_Witness ==
  /\ jobs = 0
  /\ pc = "pool"
  /\ Len(pathlist) = 2
  /\ si = 0
  /\ ~closed
  /\ ~ENABLED Next

====
